---- MODULE Spec2Model ----
(***************************************************************************)
(* A model of the collage maker (src/main.cpp): the controller CollageApp  *)
(* with its image store, grid dimension and grid of cells, and the         *)
(* CollageWorker jobs it starts, each running process() on a thread of its *)
(* own and notifying the controller through queued signals.                *)
(***************************************************************************)
EXTENDS Integers, Sequences, FiniteSets, TLC

(***************************************************************************)
(* Bounds of the model.                                                    *)
(***************************************************************************)
\* largest value the user dials on the grid-size spin box in the model
MaxN == 3
\* number of store edits (drop, grid-size change, clear-all, file change) in a run
MaxEdits == 3
\* number of store edits in a run that also starts assembly jobs
MaxJobEdits == 2
\* number of populated coordinates of a snapshot handed straight to a worker
MaxFilled == 2
\* number of assembly requests in a run that restarts assembly
MaxRequests == 2
\* number of signals of one job queued to the controller and not yet delivered
MaxPending == 2
\* largest width and height of the images the crop is computed for one by one
MaxSide == 8

(***************************************************************************)
(* Program constants.                                                      *)
(***************************************************************************)
SpinMin == 1
SpinMax == 10
InitialGridSize == 3
maxCollageSize == 4000
INT_MAX == 2147483647

Min(a, b) == IF a < b THEN a ELSE b

\* C++ integer division truncates toward zero (the divisor is never 0 here)
CDiv(a, b) ==
    IF (a >= 0) = (b > 0) THEN (IF a >= 0 THEN a ELSE -a) \div (IF b > 0 THEN b ELSE -b)
    ELSE -((IF a >= 0 THEN a ELSE -a) \div (IF b > 0 THEN b ELSE -b))

(***************************************************************************)
(* Images and files.  An image is its width and height; QImage() is the    *)
(* null image.  A file path is its base name and suffix.                   *)
(***************************************************************************)
NullImage == [w |-> 0, h |-> 0]
IsNull(img) == img.w = 0 \/ img.h = 0

Portrait == [w |-> 200, h |-> 300]
Large    == [w |-> 2000, h |-> 2000]

PathA   == [base |-> "a", suffix |-> "PNG"]
PathTxt == [base |-> "notes", suffix |-> "txt"]
\* the files a user drags onto a cell
DropPaths == {PathA, PathTxt}
\* what a file on disk decodes to (NullImage: missing or undecodable)
FileContents == {NullImage, Portrait, Large}

validExtensions == {"jpg", "jpeg", "png", "bmp", "gif", "tiff", "webp"}

\* QString::toLower on the suffixes of the model
ToLower(s) ==
    CASE s = "PNG" -> "png"
      [] s = "JPG" -> "jpg"
      [] OTHER -> s

\* QImage image(filePath)
LoadImage(fs, path) == IF path \in DOMAIN fs THEN fs[path] ELSE NullImage

VARIABLES
    gridSize,     \* CollageApp::gridSize
    imageData,    \* CollageApp::imageData, a map from <<row, col>> to [path, image]
    cells,        \* CollageApp::cells: [n |-> cells.size(), has |-> cells with hasImage]
    infoLabel,    \* the text of CollageApp::infoLabel
    gridTimer,    \* the single-shot timer of initializeGrid is still pending
    files,        \* the disk: what each path decodes to
    last,         \* the last handler run: its name, arguments, message box, and the store before it
    fault,        \* the undefined or fatal operation the process has executed, if any
    crashed,      \* the process has terminated abnormally
    editsLeft,    \* store edits the run may still make
    jobsLeft,     \* assembly jobs the run may still start
    jobs          \* the jobs started, each a worker, its thread and its progress dialog

vars == <<gridSize, imageData, cells, infoLabel, gridTimer, files, last, fault, crashed,
          editsLeft, jobsLeft, jobs>>

EmptyMap == [c \in {} |-> NullImage]

\* std::map::insert instead of operator[]: an existing entry is kept
PutIfAbsent(data, key, val) ==
    [c \in DOMAIN data \cup {key} |-> IF c \in DOMAIN data THEN data[c] ELSE val]

\* imageData[{row, col}] = {filePath, image}
Put(data, key, val) == [c \in DOMAIN data \cup {key} |-> IF c = key THEN val ELSE data[c]]

\* cells[row][col] exists
CellExists(cs, row, col) == row \in 0..(cs.n - 1) /\ col \in 0..(cs.n - 1)

(***************************************************************************)
(* The controller's state as the handlers transform it.  A handler yields  *)
(* the set of states it can end in: one state, or several where the code   *)
(* has undefined behaviour.                                                *)
(***************************************************************************)
UiState == [gridSize |-> gridSize, imageData |-> imageData, cells |-> cells,
            infoLabel |-> infoLabel, report |-> "none", fault |-> fault, crashed |-> crashed]

\* the text the constructor gives the info label
HintLabel == [text |-> "hint", filled |-> 0, total |-> 0]

\* CollageApp::updateInfoLabel
updateInfoLabel(st) ==
    [st EXCEPT !.infoLabel = [text |-> "filled", filled |-> Cardinality(DOMAIN st.imageData),
                              total |-> st.gridSize * st.gridSize]]

\* undefined behaviour: the process dies, or runs on
Undefined(st, what) ==
    {[st EXCEPT !.fault = what, !.crashed = TRUE], [st EXCEPT !.fault = what]}

\* CollageApp::onImageDropped
onImageDropped(st, row, col, filePath) ==
    IF ToLower(filePath.suffix) \notin validExtensions
    THEN {[st EXCEPT !.report = "warning: not an image"]}
    ELSE LET image == LoadImage(files, filePath) IN
         IF IsNull(image)
         THEN {[st EXCEPT !.report = "error: load failed"]}
         ELSE LET stored == [st EXCEPT !.imageData =
                                 Put(@, <<row, col>>, [path |-> filePath, image |-> image])]
              IN IF CellExists(st.cells, row, col)
                 THEN {updateInfoLabel([stored EXCEPT !.cells.has = @ \cup {<<row, col>>}])}
                 \* cells[row][col] out of range
                 ELSE Undefined(stored, "index out of range")

\* a grid rebuilt without restoring the thumbnails
ThumbnailKeysNone(data, n) == {}

\* the entries updateAllThumbnails marks on the grid
ThumbnailKeys(data, n) == {c \in DOMAIN data : c[1] < n /\ c[2] < n}

\* CollageApp::recreateGrid with updateAllThumbnails
recreateGrid(st) ==
    LET n == st.gridSize
        cleared == [st EXCEPT !.cells = [n |-> 0, has |-> {}]]
        keys == ThumbnailKeys(st.imageData, n)
        rebuilt == [st EXCEPT !.cells = [n |-> n, has |-> {c \in keys : c[1] >= 0 /\ c[2] >= 0}]]
    IN  IF n = 0
        \* availableWidth / gridSize
        THEN Undefined(cleared, "division by zero")
        ELSE IF n < 0
        \* cells.resize(static_cast<size_t>(gridSize)) throws std::length_error
        THEN {[cleared EXCEPT !.fault = "length error", !.crashed = TRUE]}
        ELSE IF \E c \in keys : c[1] < 0 \/ c[2] < 0
        \* cells[row][col] with a negative index
        THEN Undefined(rebuilt, "index out of range")
        ELSE {updateInfoLabel(rebuilt)}

\* std::map iterates in key order
KeyLess(a, b) == a[1] < b[1] \/ (a[1] = b[1] /\ a[2] < b[2])
FirstKey(keys) == CHOOSE k \in keys : \A o \in keys : o = k \/ KeyLess(k, o)

\* the bounds test with the column forgotten
FitsRowOnly(key, newSize) == key[1] < newSize

\* the restore loop of onGridSizeChanged keeps the entry at key
Fits(key, newSize) == key[1] < newSize /\ key[2] < newSize

\* the restore loop of onGridSizeChanged over the keys of oldData still to visit
RECURSIVE restoreLoop(_, _, _, _)
restoreLoop(sts, oldData, keys, newSize) ==
    IF keys = {} THEN sts
    ELSE LET k == FirstKey(keys)
             step(st) == IF st.crashed THEN {st}
                         ELSE IF Fits(k, newSize)
                         THEN onImageDropped(st, k[1], k[2], oldData[k].path)
                         ELSE {st}
         IN restoreLoop(UNION {step(st) : st \in sts}, oldData, keys \ {k}, newSize)

\* CollageApp::onGridSizeChanged
onGridSizeChanged(st, newSize) ==
    IF newSize # st.gridSize
    THEN LET oldData == st.imageData
             resized == [st EXCEPT !.gridSize = newSize, !.imageData = EmptyMap]
         IN restoreLoop(recreateGrid(resized), oldData, DOMAIN oldData, newSize)
    ELSE {st}

\* CollageApp::clearAll
clearAll(st) == recreateGrid([st EXCEPT !.imageData = EmptyMap])

\* the controller's variables take the outcome st of handler op
Becomes(st, op, args) ==
    /\ gridSize' = st.gridSize
    /\ imageData' = st.imageData
    /\ cells' = st.cells
    /\ infoLabel' = st.infoLabel
    /\ fault' = st.fault
    /\ crashed' = st.crashed
    /\ last' = [op |-> op, args |-> args, report |-> st.report, before |-> imageData]

\* the state after CollageApp::CollageApp, with the run's budget of edits and jobs
Constructed(nEdits, nJobs) ==
    /\ gridSize = InitialGridSize
    /\ imageData = EmptyMap
    /\ cells = [n |-> 0, has |-> {}]
    /\ infoLabel = HintLabel
    /\ gridTimer = TRUE
    /\ files = [p \in {PathA} |-> Portrait]
    /\ last = [op |-> "none", args |-> <<>>, report |-> "none", before |-> EmptyMap]
    /\ fault = "none"
    /\ crashed = FALSE
    /\ editsLeft = nEdits
    /\ jobsLeft = nJobs

InitWith(nEdits, nJobs) == Constructed(nEdits, nJobs) /\ jobs = <<>>

Init == InitWith(MaxEdits, 0)

\* no progress dialog is open: the main window takes input
WindowEnabled == \A j \in DOMAIN jobs : jobs[j].dialog # "visible"

CanEdit == ~crashed /\ WindowEnabled /\ editsLeft > 0

\* QTimer::singleShot(100, this, &CollageApp::initializeGrid)
InitializeGrid ==
    /\ ~crashed /\ gridTimer
    /\ gridTimer' = FALSE
    /\ \E st \in recreateGrid(UiState) : Becomes(st, "initializeGrid", <<>>)
    /\ UNCHANGED <<files, editsLeft, jobsLeft, jobs>>

\* the rows and columns of the cells the user drops on: the corners of the grid
DropIndexes(n) == {0, n - 1} \cap (0..(n - 1))

\* a call of onImageDropped(row, col, path)
ImageDropped(row, col, path) ==
    /\ CanEdit
    /\ \E st \in onImageDropped(UiState, row, col, path) :
          Becomes(st, "onImageDropped", <<row, col, path>>)
    /\ editsLeft' = editsLeft - 1
    /\ UNCHANGED <<gridTimer, files, jobsLeft, jobs>>

\* a call of onGridSizeChanged(newSize) with a new size
GridSizeChanged(newSize) ==
    /\ CanEdit
    /\ newSize # gridSize
    /\ \E st \in onGridSizeChanged(UiState, newSize) :
          Becomes(st, "onGridSizeChanged", <<newSize>>)
    /\ editsLeft' = editsLeft - 1
    /\ UNCHANGED <<gridTimer, files, jobsLeft, jobs>>

\* a file is dropped on a cell of the grid: ImageCell::dropEvent emits imageDropped(row, col, path)
DropOnCell ==
    \E row \in DropIndexes(cells.n), col \in DropIndexes(cells.n), path \in DropPaths :
        ImageDropped(row, col, path)

\* the spin box, range 1..10, changes value
SpinBoxChanged ==
    \E newSize \in SpinMin..Min(SpinMax, MaxN) : GridSizeChanged(newSize)

\* the clear button
ClearAll ==
    /\ CanEdit
    /\ \E st \in clearAll(UiState) : Becomes(st, "clearAll", <<>>)
    /\ editsLeft' = editsLeft - 1
    /\ UNCHANGED <<gridTimer, files, jobsLeft, jobs>>

\* the window was resized: the timer's checkWindowSize lays the grid out again
CheckWindowSize ==
    /\ ~crashed /\ ~gridTimer
    /\ \E st \in recreateGrid(UiState) : Becomes(st, "checkWindowSize", <<>>)
    /\ UNCHANGED <<gridTimer, files, editsLeft, jobsLeft, jobs>>

\* the environment rewrites or deletes a file on disk
FileChanges ==
    /\ ~crashed /\ editsLeft > 0
    /\ \E p \in DOMAIN files, c \in FileContents :
          /\ c # files[p]
          /\ files' = [files EXCEPT ![p] = c]
    /\ editsLeft' = editsLeft - 1
    /\ UNCHANGED <<gridSize, imageData, cells, infoLabel, gridTimer, last, fault, crashed,
                   jobsLeft, jobs>>

\* the controller and the disk
Next ==
    \/ InitializeGrid
    \/ DropOnCell
    \/ SpinBoxChanged
    \/ ClearAll
    \/ CheckWindowSize
    \/ FileChanges

Spec == Init /\ [][Next]_vars

(***************************************************************************)
(* Assembly jobs.  A job is a CollageWorker (its members, and the locals   *)
(* and position of process()), the flag QThread::quit sets, the progress   *)
(* dialog, the signals emitted so far and how many of them the             *)
(* controller's event loop has delivered.                                  *)
(***************************************************************************)
OutputPaths == {"out.png"}

\* CollageWorker::CollageWorker: the members are copies of the arguments
CollageWorker(data, n, maxSize, path) ==
    [imageData |-> data, gridSize |-> n, maxCollageSize |-> maxSize, outputPath |-> path,
     pc |-> "build", images |-> <<>>, processedImages |-> <<>>,
     minSize |-> INT_MAX, collageSize |-> 0, i |-> 0, painted |-> {},
     saved |-> "none", sent |-> <<>>, delivered |-> 0,
     quit |-> FALSE, dialog |-> "visible", cancelAt |-> "never", outcome |-> "none",
     message |-> ""]

\* a worker holding a reference to the controller's map instead of a copy
WorkerImageDataShared(j) == imageData

\* the members process() reads
WorkerImageData(j) == jobs[j].imageData
WorkerGridSize(j) == jobs[j].gridSize

Progress(v) == [kind |-> "progress", value |-> v, success |-> FALSE, message |-> ""]
Finished(ok, message) == [kind |-> "finished", value |-> 0, success |-> ok, message |-> message]

\* emit: the signal is queued to the controller's thread
Emit(job, msg) == [job EXCEPT !.sent = Append(@, msg)]

\* the controller's queue has room for the next signal of job j
CanEmit(j) == Len(jobs[j].sent) - jobs[j].delivered < MaxPending

\* process() of job j is at position pc and can take its next step
At(j, pc) == ~crashed /\ j \in DOMAIN jobs /\ jobs[j].pc = pc /\ CanEmit(j)

\* the crop taken from the top-left corner
cropTopLeftSquare(img) ==
    [w |-> Min(img.w, img.h), h |-> Min(img.w, img.h), left |-> 0, top |-> 0]

\* CollageWorker::cropCenterToSquare: the region img.copy takes
cropCenterToSquare(img) ==
    LET newSize == Min(img.w, img.h)
        left == CDiv(img.w - newSize, 2)
        top == CDiv(img.h - newSize, 2)
    IN [w |-> newSize, h |-> newSize, left |-> left, top |-> top]

NullSquare == [w |-> 0, h |-> 0, left |-> 0, top |-> 0]

\* the cell sequence filled by the linear index row*n + col of every snapshot key
BuildImagesByIndex(data, n) ==
    IF n <= 0 THEN <<>>
    ELSE [k \in 1..(n * n) |->
            LET keys == {c \in DOMAIN data : c[1] * n + c[2] = k - 1}
            IN IF keys # {} THEN data[FirstKey(keys)].image ELSE NullImage]

\* process(), lines 46-56: the cells in row-major order
BuildImages(data, n) ==
    IF n <= 0 THEN <<>>
    ELSE [k \in 1..(n * n) |->
            LET key == <<(k - 1) \div n, (k - 1) % n>>
            IN IF key \in DOMAIN data THEN data[key].image ELSE NullImage]

\* process(), lines 60-71
ProcessImages(images) ==
    [k \in 1..Len(images) |->
        IF IsNull(images[k]) THEN NullSquare ELSE cropCenterToSquare(images[k])]

RECURSIVE MinWidth(_, _, _)
MinWidth(processed, k, acc) ==
    IF k > Len(processed) THEN acc
    ELSE MinWidth(processed, k + 1,
                  IF IsNull(processed[k]) THEN acc ELSE Min(acc, processed[k].w))

\* the cap compared with the cell size instead of the collage size
CapSizePerCell(n, minSize, maxSize) ==
    IF minSize > maxSize
    THEN <<CDiv(maxSize, n), n * CDiv(maxSize, n)>>
    ELSE <<minSize, n * minSize>>

\* the cap applied with the cell size rounded up instead of down
CapSizeRoundedUp(n, minSize, maxSize) ==
    IF n * minSize > maxSize
    THEN <<CDiv(maxSize + n - 1, n), n * CDiv(maxSize + n - 1, n)>>
    ELSE <<minSize, n * minSize>>

\* process(), lines 80-84: <<cell size, collage size>>
CapSize(n, minSize, maxSize) ==
    IF n * minSize > maxSize
    THEN <<CDiv(maxSize, n), n * CDiv(maxSize, n)>>
    ELSE <<minSize, n * minSize>>

\* the paint loop's value without the division by the number of cells
PaintProgressUnscaled(i, size) == 60 + i * 35

\* the value the paint loop reports after cell i of size cells
PaintProgress(i, size) == 60 + CDiv(i * 35, size)

SetJob(j, job) == jobs' = [jobs EXCEPT ![j] = job]
ControllerUnchanged ==
    UNCHANGED <<gridSize, imageData, cells, infoLabel, gridTimer, files, last, fault, crashed,
                editsLeft, jobsLeft>>

\* CollageApp::createCollage
CreateCollage ==
    /\ ~crashed /\ WindowEnabled
    /\ \E outputPath \in OutputPaths \cup {""} :
          /\ IF DOMAIN imageData = {}
             THEN /\ outputPath = ""
                  /\ last' = [op |-> "createCollage", args |-> <<>>,
                              report |-> "warning: add an image", before |-> imageData]
                  /\ UNCHANGED <<jobs, jobsLeft>>
             ELSE /\ jobsLeft > 0
                  /\ last' = [op |-> "createCollage", args |-> <<outputPath>>,
                              report |-> "none", before |-> imageData]
                  /\ IF outputPath = ""
                     THEN UNCHANGED <<jobs, jobsLeft>>
                     ELSE /\ jobs' = Append(jobs, CollageWorker(imageData, gridSize,
                                                                maxCollageSize, outputPath))
                          /\ jobsLeft' = jobsLeft - 1
    /\ UNCHANGED <<gridSize, imageData, cells, infoLabel, gridTimer, files, fault, crashed,
                   editsLeft>>

\* process(), lines 46-58
Build(j) ==
    /\ At(j, "build")
    /\ SetJob(j, Emit([jobs[j] EXCEPT !.images = BuildImages(WorkerImageData(j), WorkerGridSize(j)),
                                      !.pc = "crop"],
                      Progress(20)))
    /\ ControllerUnchanged

\* the crop pass without the return after the no-images failure
CropFallsThrough(j) ==
    /\ At(j, "crop")
    /\ LET processed == ProcessImages(jobs[j].images)
           minSize == MinWidth(processed, 1, INT_MAX)
           job == [jobs[j] EXCEPT !.processedImages = processed, !.minSize = minSize,
                                  !.pc = "size"]
       IN IF minSize = INT_MAX
          THEN SetJob(j, Emit(Emit(job, Finished(FALSE, "no images")), Progress(40)))
          ELSE SetJob(j, Emit(job, Progress(40)))
    /\ ControllerUnchanged

\* the crop pass reporting progress 100 before the no-images failure
CropCompletesProgress(j) ==
    /\ At(j, "crop")
    /\ LET processed == ProcessImages(jobs[j].images)
           minSize == MinWidth(processed, 1, INT_MAX)
           job == [jobs[j] EXCEPT !.processedImages = processed, !.minSize = minSize]
       IN IF minSize = INT_MAX
          THEN SetJob(j, Emit(Emit([job EXCEPT !.pc = "done"], Progress(100)),
                              Finished(FALSE, "no images")))
          ELSE SetJob(j, Emit([job EXCEPT !.pc = "size"], Progress(40)))
    /\ ControllerUnchanged

\* process(), lines 60-78
Crop(j) ==
    /\ At(j, "crop")
    /\ LET processed == ProcessImages(jobs[j].images)
           minSize == MinWidth(processed, 1, INT_MAX)
           job == [jobs[j] EXCEPT !.processedImages = processed, !.minSize = minSize]
       IN IF minSize = INT_MAX
          THEN SetJob(j, Emit([job EXCEPT !.pc = "done"], Finished(FALSE, "no images")))
          ELSE SetJob(j, Emit([job EXCEPT !.pc = "size"], Progress(40)))
    /\ ControllerUnchanged

\* process(), lines 80-91
Size(j) ==
    /\ At(j, "size")
    /\ LET cap == CapSize(WorkerGridSize(j), jobs[j].minSize, jobs[j].maxCollageSize)
       IN SetJob(j, Emit([jobs[j] EXCEPT !.minSize = cap[1], !.collageSize = cap[2],
                                         !.i = 0, !.pc = "paint"],
                         Progress(60)))
    /\ ControllerUnchanged

\* the paint offset with row and column exchanged
PaintOffsetTransposed(i, n, minSize) == [x |-> CDiv(i, n) * minSize, y |-> (i % n) * minSize]

\* process(), lines 95-101: where painter.drawImage puts cell i of a grid of n columns
PaintOffset(i, n, minSize) == [x |-> (i % n) * minSize, y |-> CDiv(i, n) * minSize]

\* process(), lines 93-105: one iteration of the paint loop
Paint(j) ==
    /\ At(j, "paint")
    /\ LET job == jobs[j]
           i == job.i
           size == Len(job.processedImages)
           n == WorkerGridSize(j)
           at == PaintOffset(i, n, job.minSize)
           square == [index |-> i, x |-> at.x, y |-> at.y, side |-> job.minSize]
           drawn == IF IsNull(job.processedImages[i + 1]) THEN job.painted
                    ELSE job.painted \cup {square}
       IN SetJob(j, Emit([job EXCEPT !.painted = drawn, !.i = i + 1,
                                     !.pc = IF i + 1 < size THEN "paint" ELSE "encode"],
                         Progress(PaintProgress(i, size))))
    /\ ControllerUnchanged

\* the encode milestone reporting 100 before the write
EncodeReportsDone(j) ==
    /\ At(j, "encode")
    /\ SetJob(j, Emit([jobs[j] EXCEPT !.pc = "save"], Progress(100)))
    /\ ControllerUnchanged

\* process(), line 107
Encode(j) ==
    /\ At(j, "encode")
    /\ SetJob(j, Emit([jobs[j] EXCEPT !.pc = "save"], Progress(95)))
    /\ ControllerUnchanged

\* process(), line 109: the write succeeds or fails; a null raster cannot be saved
Save(j) ==
    /\ At(j, "save")
    /\ \E ok \in BOOLEAN :
          /\ ok => jobs[j].collageSize > 0
          /\ SetJob(j, [jobs[j] EXCEPT !.saved = IF ok THEN "ok" ELSE "failed", !.pc = "p100"])
    /\ ControllerUnchanged

\* process(), line 111
Complete(j) ==
    /\ At(j, "p100")
    /\ SetJob(j, Emit([jobs[j] EXCEPT !.pc = "finish"], Progress(100)))
    /\ ControllerUnchanged

\* the end of process() without the else branch of the save failure
FinishOnlyOnSuccess(j) ==
    /\ At(j, "finish")
    /\ SetJob(j, IF jobs[j].saved = "ok"
                 THEN Emit([jobs[j] EXCEPT !.pc = "done"], Finished(TRUE, "saved"))
                 ELSE [jobs[j] EXCEPT !.pc = "done"])
    /\ ControllerUnchanged

\* process(), lines 113-118
Finish(j) ==
    /\ At(j, "finish")
    /\ SetJob(j, Emit([jobs[j] EXCEPT !.pc = "done"],
                      IF jobs[j].saved = "ok" THEN Finished(TRUE, "saved")
                      ELSE Finished(FALSE, "save failed")))
    /\ ControllerUnchanged

\* process(), lines 120-122: an allocation in the two vector-building loops throws
Throw(j) ==
    /\ At(j, "build") \/ At(j, "crop")
    /\ SetJob(j, Emit([jobs[j] EXCEPT !.pc = "done"], Finished(FALSE, "exception")))
    /\ ControllerUnchanged

\* the thread of job j runs process() one step further
WorkerStep(j) ==
    \/ Build(j) \/ Crop(j) \/ Size(j) \/ Paint(j) \/ Encode(j)
    \/ Save(j) \/ Complete(j) \/ Finish(j)

\* QProgressDialog::setValue with minimumDuration 0, autoReset and autoClose:
\* any progress shows the dialog, the maximum resets and hides it
setValue(job, v) == [job EXCEPT !.dialog = IF v = 100 THEN "hidden" ELSE "visible"]

\* the lambda connected to CollageWorker::finished
onFinished(job, success, message) ==
    [job EXCEPT !.dialog = "hidden",
                !.outcome = IF success THEN "success" ELSE "failure",
                !.message = message,
                !.quit = TRUE]

\* the controller's event loop delivers the next queued signal of job j.  The
\* lambda ends with thread->quit(): when QThread::quit was already called, the
\* thread has finished and its deleteLater ran while the message box was open,
\* so the call is on a deleted QThread
Deliver(j) ==
    /\ ~crashed /\ j \in DOMAIN jobs
    /\ jobs[j].delivered < Len(jobs[j].sent)
    /\ LET msg == jobs[j].sent[jobs[j].delivered + 1]
           job == [jobs[j] EXCEPT !.delivered = @ + 1]
       IN IF msg.kind = "progress"
          THEN /\ SetJob(j, setValue(job, msg.value))
               /\ ControllerUnchanged
          ELSE /\ SetJob(j, onFinished(job, msg.success, msg.message))
               /\ IF jobs[j].quit
                  THEN /\ \E st \in Undefined(UiState, "use after free") :
                             fault' = st.fault /\ crashed' = st.crashed
                       /\ UNCHANGED <<gridSize, imageData, cells, infoLabel, gridTimer, files,
                                      last, editsLeft, jobsLeft>>
                  ELSE ControllerUnchanged

\* QProgressDialog::canceled is connected to QThread::quit, nothing else
onCanceled(job) ==
    [job EXCEPT !.dialog = "hidden", !.quit = TRUE,
                !.cancelAt = IF @ = "never" /\ job.pc # "done"
                             THEN (IF job.saved = "ok" THEN "after write"
                                   ELSE IF job.painted = {} THEN "before paint"
                                   ELSE "after paint")
                             ELSE @]

\* the user presses the cancel button of the dialog of job j
Cancel(j) ==
    /\ ~crashed /\ j \in DOMAIN jobs
    /\ jobs[j].dialog = "visible"
    /\ SetJob(j, onCanceled(jobs[j]))
    /\ ControllerUnchanged

\* the controller with its assembly jobs
JobNext ==
    \/ InitializeGrid
    \/ DropOnCell
    \/ SpinBoxChanged
    \/ ClearAll
    \/ CreateCollage
    \/ \E j \in DOMAIN jobs : Build(j)
    \/ \E j \in DOMAIN jobs : Crop(j)
    \/ \E j \in DOMAIN jobs : Size(j)
    \/ \E j \in DOMAIN jobs : Paint(j)
    \/ \E j \in DOMAIN jobs : Encode(j)
    \/ \E j \in DOMAIN jobs : Save(j)
    \/ \E j \in DOMAIN jobs : Complete(j)
    \/ \E j \in DOMAIN jobs : Finish(j)
    \/ \E j \in DOMAIN jobs : Throw(j)
    \/ \E j \in DOMAIN jobs : Deliver(j)
    \/ \E j \in DOMAIN jobs : Cancel(j)

\* a run with one assembly request and the store edits around it
JobSpec == InitWith(MaxJobEdits, 1) /\ [][JobNext]_vars

\* the scheduler runs the job's thread and the event loop delivers every queued signal
FairJobSpec == JobSpec /\ WF_vars(WorkerStep(1)) /\ WF_vars(Deliver(1))

\* a run on one stored image in which assembly is requested again
RestartSpec == InitWith(1, MaxRequests) /\ [][JobNext]_vars

(***************************************************************************)
(* A worker constructed directly, on any snapshot and grid dimension.      *)
(***************************************************************************)
WorkerImages == {Portrait, Large}

\* rows and columns of snapshot keys: the corners of the grid and one past its edge
SnapshotIndexes(n) == {0, n - 1, n}

SnapshotKeySets(n) ==
    {ks \in SUBSET (SnapshotIndexes(n) \X SnapshotIndexes(n)) : Cardinality(ks) <= MaxFilled}

Snapshots(n) ==
    UNION {[ks -> [path : {PathA}, image : WorkerImages]] : ks \in SnapshotKeySets(n)}

WorkerInit ==
    /\ Constructed(0, 0)
    /\ \E n \in SpinMin..Min(SpinMax, MaxN) : \E data \in Snapshots(n) :
          jobs = <<CollageWorker(data, n, maxCollageSize, "out.png")>>

WorkerNext ==
    \/ \E j \in DOMAIN jobs : Build(j)
    \/ \E j \in DOMAIN jobs : Crop(j)
    \/ \E j \in DOMAIN jobs : Size(j)
    \/ \E j \in DOMAIN jobs : Paint(j)
    \/ \E j \in DOMAIN jobs : Encode(j)
    \/ \E j \in DOMAIN jobs : Save(j)
    \/ \E j \in DOMAIN jobs : Complete(j)
    \/ \E j \in DOMAIN jobs : Finish(j)
    \/ \E j \in DOMAIN jobs : Throw(j)
    \/ \E j \in DOMAIN jobs : Deliver(j)

WorkerSpec == WorkerInit /\ [][WorkerNext]_vars

(***************************************************************************)
(* The handlers called directly, with any argument.                        *)
(***************************************************************************)
ApiIndexes == (-1)..MaxN
ApiSizes == ((-1)..MaxN) \cup {SpinMax + 1}

\* onImageDropped(row, col, path) with any coordinate
AssignImage == \E row \in ApiIndexes, col \in ApiIndexes, path \in DropPaths :
                   ImageDropped(row, col, path)

\* onGridSizeChanged(n) with any n
SetGridDimension == \E n \in ApiSizes : GridSizeChanged(n)

ApiNext ==
    \/ InitializeGrid
    \/ AssignImage
    \/ SetGridDimension
    \/ ClearAll

ApiSpec == Init /\ [][ApiNext]_vars

(***************************************************************************)
(* Claims.                                                                 *)
(***************************************************************************)
Running(j) == jobs[j].pc # "done"
ReportsSuccess(j) ==
    \E k \in 1..Len(jobs[j].sent) : jobs[j].sent[k].kind = "finished" /\ jobs[j].sent[k].success
FileWritten(j) == jobs[j].saved = "ok"

\* C1: a job whose cancellation was requested while it ran and before any cell was
\* painted reports no Success and writes no file at its destination path.
EarlyCancelEndsCancelled ==
    \A j \in DOMAIN jobs :
        jobs[j].cancelAt = "before paint" =>
            /\ ~ReportsSuccess(j)
            /\ ~FileWritten(j)
            /\ jobs[j].outcome # "success"

IsProgress(msg) == msg.kind = "progress"

\* the values of the paint loop for every grid dimension of the spin box
PaintProgressArithmetic ==
    \A n \in SpinMin..SpinMax :
        \A i \in 0..(n * n - 1) :
            /\ PaintProgress(i, n * n) \in 60..95
            /\ i > 0 => PaintProgress(i - 1, n * n) <= PaintProgress(i, n * n)

\* C2: the progress values a job emits are non-decreasing and lie in 0..100; the
\* values of the paint loop do so for every grid dimension of the spin box.
ProgressMonotone ==
    /\ \A j \in DOMAIN jobs :
          LET sent == jobs[j].sent IN
          \A b \in 1..Len(sent) :
              IsProgress(sent[b]) =>
                  /\ sent[b].value \in 0..100
                  /\ \A a \in 1..(b - 1) : IsProgress(sent[a]) => sent[a].value <= sent[b].value
    /\ PaintProgressArithmetic

\* a job painted a grid of several cells, succeeded, and every signal was delivered
ProgressWitness ==
    \E j \in DOMAIN jobs :
        /\ jobs[j].outcome = "success"
        /\ jobs[j].i > 1
        /\ jobs[j].delivered = Len(jobs[j].sent)

\* C3: a job emits finished at most once and emits nothing after it; the outcome
\* is the last signal delivered.
OneTerminalLast ==
    \A j \in DOMAIN jobs :
        LET sent == jobs[j].sent IN
        /\ \A k \in 1..Len(sent) : sent[k].kind = "finished" => k = Len(sent)
        /\ jobs[j].pc = "done" <=> (Len(sent) > 0 /\ sent[Len(sent)].kind = "finished")
        /\ jobs[j].outcome # "none" => jobs[j].delivered = Len(sent)

\* the no-images path has ended and its outcome was delivered
NoImagesWitness ==
    \E j \in DOMAIN jobs :
        /\ jobs[j].pc = "done"
        /\ Len(jobs[j].processedImages) > 0
        /\ jobs[j].minSize = INT_MAX
        /\ jobs[j].outcome = "failure"

\* C4: every job started has its terminal outcome delivered to the controller.
EveryJobReportsOutcome ==
    (1 \in DOMAIN jobs) ~> (1 \in DOMAIN jobs /\ jobs[1].outcome # "none")

\* the outcome of a job cancelled while it ran was delivered
CancelledJobReported ==
    \E j \in DOMAIN jobs : jobs[j].cancelAt # "never" /\ jobs[j].outcome # "none"

\* C5: at most one job is running at any time.
AtMostOneRunning == Cardinality({j \in DOMAIN jobs : Running(j)}) <= 1

\* the cells of a snapshot that lie on the n x n grid, as row-major indexes
PresentIndexes(data, n) ==
    {c[1] * n + c[2] : c \in {k \in DOMAIN data : k[1] \in 0..(n - 1) /\ k[2] \in 0..(n - 1)}}

\* process() is past its first loop, which ends with progress(20)
HasBuilt(job) == Len(job.sent) > 0 /\ job.sent[1] = Progress(20)

\* what job j has composited so far agrees with the snapshot and dimension it holds
CompositesSnapshot(j) ==
    LET job == jobs[j]
        present == PresentIndexes(job.imageData, job.gridSize)
    IN /\ HasBuilt(job) =>
             /\ Len(job.images) = job.gridSize * job.gridSize
             /\ {k \in 1..Len(job.images) : ~IsNull(job.images[k])} = {x + 1 : x \in present}
             /\ \A c \in DOMAIN job.imageData :
                   c[1] * job.gridSize + c[2] \in present =>
                       job.images[c[1] * job.gridSize + c[2] + 1] = job.imageData[c].image
       /\ {sq.index : sq \in job.painted} = {x \in present : x < job.i}
       /\ job.pc \in {"paint", "encode", "save", "p100", "finish"} =>
             job.collageSize =
                 CapSize(job.gridSize,
                         MinWidth(ProcessImages(BuildImages(job.imageData, job.gridSize)), 1, INT_MAX),
                         job.maxCollageSize)[2]

\* the members of every worker stay as they were constructed, and a worker is
\* constructed on the store and dimension of the moment of the request
SnapshotFrozen ==
    /\ \A j \in DOMAIN jobs :
          /\ jobs'[j].imageData = jobs[j].imageData
          /\ jobs'[j].gridSize = jobs[j].gridSize
    /\ \A j \in DOMAIN jobs' \ DOMAIN jobs :
          /\ jobs'[j].imageData = imageData
          /\ jobs'[j].gridSize = gridSize

\* C6: a job composites the store contents and grid dimension of the moment it
\* was requested, whatever is done to the live store afterwards.
SnapshotIsolation ==
    /\ [](\A j \in DOMAIN jobs : CompositesSnapshot(j))
    /\ [][SnapshotFrozen]_vars

\* a job succeeded on a snapshot that the live store and dimension no longer match
IsolationWitness ==
    \E j \in DOMAIN jobs :
        /\ jobs[j].outcome = "success"
        /\ jobs[j].painted # {}
        /\ imageData # jobs[j].imageData
        /\ gridSize # jobs[j].gridSize

InGrid(row, col, n) == row \in 0..(n - 1) /\ col \in 0..(n - 1)

\* C7: every coordinate in the store lies on the current grid.
StoreWithinGrid == \A c \in DOMAIN imageData : InGrid(c[1], c[2], gridSize)

\* a grid-size change pruned one entry and kept another
PruneWitness ==
    /\ last.op = "onGridSizeChanged"
    /\ DOMAIN imageData # {}
    /\ DOMAIN last.before \ DOMAIN imageData # {}

\* the entries of data that lie within an n x n grid
Restrict(data, n) == [c \in {k \in DOMAIN data : k[1] < n /\ k[2] < n} |-> data[c]]

\* C8: a grid-size change to n removes exactly the entries with row >= n or col >= n
\* and leaves every other entry as it was.
GridChangeRetainsExactly ==
    last.op = "onGridSizeChanged" => imageData = Restrict(last.before, last.args[1])

\* C9: an assignment outside the current grid leaves the store unchanged and is reported.
OutOfRangeAssignRejected ==
    (last.op = "onImageDropped" /\ ~InGrid(last.args[1], last.args[2], gridSize)) =>
        (imageData = last.before /\ last.report # "none")

\* C10: the grid dimension stays within 1..10 and nothing divides by a zero dimension.
GridDimensionStaysValid ==
    /\ gridSize \in SpinMin..SpinMax
    /\ fault # "division by zero"

\* the snapshot of job j holds no image on its grid
NoPresentCells(j) == PresentIndexes(jobs[j].imageData, jobs[j].gridSize) = {}

\* the positions of the finished signals among the signals job j emitted
FinishedIndexes(j) == {k \in 1..Len(jobs[j].sent) : jobs[j].sent[k].kind = "finished"}

\* C11: a job over zero present cells reports exactly one Failure, the no-images
\* failure unless an allocation threw first, reports no Success, writes no file
\* and never reports progress 100.
NoImagesFails ==
    \A j \in DOMAIN jobs :
        NoPresentCells(j) =>
            LET job == jobs[j] IN
            /\ ~ReportsSuccess(j)
            /\ job.saved = "none"
            /\ \A k \in 1..Len(job.sent) : job.sent[k] # Progress(100)
            /\ Cardinality(FinishedIndexes(j)) <= 1
            /\ job.pc = "done" =>
                  /\ Cardinality(FinishedIndexes(j)) = 1
                  /\ job.sent[Len(job.sent)] \in {Finished(FALSE, "no images"),
                                                  Finished(FALSE, "exception")}
                  /\ Len(job.processedImages) > 0 =>
                        job.sent[Len(job.sent)] = Finished(FALSE, "no images")
            /\ job.outcome # "none" =>
                  /\ job.outcome = "failure"
                  /\ job.message \in {"no images", "exception"}

\* a job whose snapshot holds images, all of them off its grid, reported the no-images failure
OffGridOnlyFails ==
    \E j \in DOMAIN jobs :
        /\ DOMAIN jobs[j].imageData # {}
        /\ NoPresentCells(j)
        /\ jobs[j].outcome = "failure"
        /\ jobs[j].message = "no images"

\* minimum square widths and caps of the size arithmetic
CapWidths == {1, 2, 150, 399, 400, 401, 1333, 1334, 2000, 4000, 4001}
Caps == {1, 449, 450, 1000, 4000}

\* the cell size the policy prescribes for dimension n, minimum width m and cap
PolicyCellSize(n, m, cap) == IF n * m <= cap THEN m ELSE cap \div n

\* process() of the job is past the size-cap decision, which ends with progress(60)
HasSized(job) == Len(job.sent) >= 3 /\ job.sent[3] = Progress(60)

Square(side) == [w |-> side, h |-> side]

\* the policy over every N in 1..10 and the widths and caps above, with the two worked cases
SizeCapArithmetic ==
    /\ \A n \in SpinMin..SpinMax, m \in CapWidths, cap \in Caps :
          /\ CapSize(n, m, cap) = <<PolicyCellSize(n, m, cap), n * PolicyCellSize(n, m, cap)>>
          /\ CapSize(n, m, cap)[2] <= cap
    /\ CapSize(3, 2000, 4000) = <<1333, 3999>>
    /\ LET processed == ProcessImages(<<Square(200), NullImage, Square(300), Square(150)>>)
       IN /\ MinWidth(processed, 1, INT_MAX) = 150
          /\ \A cap \in {450, 1000, 4000} : CapSize(3, 150, cap) = <<150, 450>>

\* C12: the cell size is the minimum present square width m when N*m <= M and
\* floor(M/N) otherwise, the output side is N times the cell size and never
\* exceeds M; so for every job, and for every N in 1..10 over the widths and caps above.
SizeCapPolicy ==
    /\ \A j \in DOMAIN jobs :
          HasSized(jobs[j]) =>
              LET job == jobs[j]
                  n == job.gridSize
                  m == MinWidth(job.processedImages, 1, INT_MAX)
              IN /\ job.minSize = PolicyCellSize(n, m, job.maxCollageSize)
                 /\ job.collageSize = n * job.minSize
                 /\ job.collageSize <= job.maxCollageSize
    /\ SizeCapArithmetic

\* a job on a grid of 3 with 2000-pixel squares was capped to 3999 and succeeded
CapWitness ==
    \E j \in DOMAIN jobs :
        /\ jobs[j].gridSize = 3
        /\ MinWidth(jobs[j].processedImages, 1, INT_MAX) = 2000
        /\ jobs[j].minSize = 1333
        /\ jobs[j].collageSize = 3999
        /\ jobs[j].outcome = "success"

\* C13: a job emits progress 100 only after its write attempt has completed, and
\* every Success it emits, and every Success delivered, comes after its progress 100.
HundredOnlyAfterWrite ==
    \A j \in DOMAIN jobs :
        LET job == jobs[j]
            sent == job.sent
            hundreds == {k \in 1..Len(sent) : sent[k] = Progress(100)}
        IN /\ hundreds # {} => job.saved \in {"ok", "failed"}
           /\ job.pc \in {"build", "crop", "size", "paint", "encode", "save"} => hundreds = {}
           /\ \A k \in 1..Len(sent) :
                 (sent[k].kind = "finished" /\ sent[k].success) =>
                     \E a \in hundreds : a < k
           /\ job.outcome = "success" =>
                 \E a \in hundreds : a < job.delivered

\* a job whose write failed reported progress 100 and then its Failure
HundredAfterFailedWrite ==
    \E j \in DOMAIN jobs :
        /\ jobs[j].saved = "failed"
        /\ \E k \in 1..Len(jobs[j].sent) : jobs[j].sent[k] = Progress(100)
        /\ jobs[j].outcome = "failure"
        /\ jobs[j].message = "save failed"

\* two squares given by their top-left pixel and side share no pixel
Apart(x1, y1, side1, x2, y2, side2) ==
    \/ x1 + side1 <= x2 \/ x2 + side2 <= x1
    \/ y1 + side1 <= y2 \/ y2 + side2 <= y1

\* C14: each present cell (row, col) of a job's snapshot, once the paint loop has
\* passed it, is painted exactly in the square at (col*cellSize, row*cellSize) of
\* side cellSize; painted squares do not overlap and lie inside the raster; the
\* square of an absent cell keeps the background; and a job whose write succeeded
\* reports Success whether or not cells are absent.
PaintedExactly ==
    \A j \in DOMAIN jobs :
        LET job == jobs[j]
            n == job.gridSize
            cell == job.minSize
            grid == (0..(n - 1)) \X (0..(n - 1))
            present == {c \in grid : c \in DOMAIN job.imageData}
        IN /\ \A sq \in job.painted :
                 /\ sq.side = cell /\ cell > 0
                 /\ \E c \in present : sq.x = c[2] * cell /\ sq.y = c[1] * cell
                 /\ sq.x >= 0 /\ sq.y >= 0
                 /\ sq.x + sq.side <= job.collageSize /\ sq.y + sq.side <= job.collageSize
           /\ \A c \in present :
                 c[1] * n + c[2] < job.i =>
                     Cardinality({sq \in job.painted : sq.x = c[2] * cell /\ sq.y = c[1] * cell}) = 1
           /\ \A sq1 \in job.painted, sq2 \in job.painted :
                 sq1 # sq2 => Apart(sq1.x, sq1.y, sq1.side, sq2.x, sq2.y, sq2.side)
           /\ \A c \in grid \ present :
                 \A sq \in job.painted :
                     Apart(sq.x, sq.y, sq.side, c[2] * cell, c[1] * cell, cell)
           /\ (job.pc = "done" /\ job.saved = "ok") =>
                 job.sent[Len(job.sent)] = Finished(TRUE, "saved")

\* a job painted two cells off the diagonal of a grid with absent cells and succeeded
SparseGridSucceeds ==
    \E j \in DOMAIN jobs :
        /\ jobs[j].outcome = "success"
        /\ Cardinality(jobs[j].painted) = 2
        /\ \E sq \in jobs[j].painted : sq.x # sq.y
        /\ Cardinality(jobs[j].painted) < jobs[j].gridSize * jobs[j].gridSize

AssignAccepted ==
    /\ editsLeft' = editsLeft - 1
    /\ files' = files
    /\ last'.op = "onImageDropped"
    /\ last'.report = "none"

\* what an accepted assignment at an in-range coordinate does to the store
AssignEffect ==
    LET key == <<last'.args[1], last'.args[2]>>
        path == last'.args[3]
        count == Cardinality(DOMAIN imageData)
    IN (AssignAccepted /\ InGrid(key[1], key[2], gridSize)) =>
           /\ DOMAIN imageData' = DOMAIN imageData \cup {key}
           /\ imageData'[key] = [path |-> path, image |-> LoadImage(files, path)]
           /\ \A c \in DOMAIN imageData \ {key} : imageData'[c] = imageData[c]
           /\ Cardinality(DOMAIN imageData') = IF key \in DOMAIN imageData THEN count ELSE count + 1
           /\ infoLabel'.filled = Cardinality(DOMAIN imageData')

\* C16: an accepted assignment at a populated in-range coordinate replaces that
\* entry's image and path, leaves every other entry and the count unchanged; at an
\* empty in-range coordinate it adds the entry and the count grows by exactly one.
AssignReplacesOrAdds == [][AssignEffect]_vars

\* a drop on a populated cell replaced its image by a different one, the count unchanged
OverwriteWitness ==
    /\ last.op = "onImageDropped" /\ last.report = "none"
    /\ <<last.args[1], last.args[2]>> \in DOMAIN last.before
    /\ imageData[<<last.args[1], last.args[2]>>].image
           # last.before[<<last.args[1], last.args[2]>>].image
    /\ Cardinality(DOMAIN imageData) = Cardinality(DOMAIN last.before)
    /\ infoLabel.filled = Cardinality(DOMAIN imageData)

\* region is the centered S x S square of img, S = min(W, H), and lies inside img
CenteredSquare(img, region) ==
    LET S == IF img.w <= img.h THEN img.w ELSE img.h IN
    /\ region.w = S /\ region.h = S
    /\ region.left = (img.w - S) \div 2
    /\ region.top = (img.h - S) \div 2
    /\ region.left >= 0 /\ region.top >= 0
    /\ region.left + region.w <= img.w
    /\ region.top + region.h <= img.h

\* the crop of every image of width and height 1..MaxSide, and of the model's images
CropArithmetic ==
    \A img \in [w : 1..MaxSide, h : 1..MaxSide] \cup {Portrait, Large, [w |-> 4001, h |-> 3000]} :
        CenteredSquare(img, cropCenterToSquare(img))

\* C17: for every image of width W >= 1 and height H >= 1 cropCenterToSquare takes
\* the S x S region, S = min(W, H), with top-left corner (floor((W-S)/2),
\* floor((H-S)/2)), and the region lies inside the image; so for every image a job crops.
CropIsCenteredSquare ==
    /\ CropArithmetic
    /\ \A j \in DOMAIN jobs :
          \A k \in 1..Len(jobs[j].processedImages) :
              IF IsNull(jobs[j].images[k])
              THEN jobs[j].processedImages[k] = NullSquare
              ELSE CenteredSquare(jobs[j].images[k], jobs[j].processedImages[k])

\* a job cropped the 200 x 300 image to its middle 200 x 200 and succeeded
CropWitness ==
    \E j \in DOMAIN jobs :
        /\ jobs[j].outcome = "success"
        /\ \E k \in 1..Len(jobs[j].processedImages) :
              /\ jobs[j].images[k] = Portrait
              /\ jobs[j].processedImages[k] = [w |-> 200, h |-> 200, left |-> 0, top |-> 50]

\* C18: after every controller handler the cells marked as holding an image are
\* exactly the coordinates of the store, and the filled count the info label
\* reports is the size of the store and never exceeds N*N.
CellsMatchStore ==
    /\ cells.has = DOMAIN imageData
    /\ \A c \in cells.has : CellExists(cells, c[1], c[2])
    /\ Cardinality(DOMAIN imageData) <= gridSize * gridSize
    /\ infoLabel # HintLabel =>
          /\ infoLabel.filled = Cardinality(DOMAIN imageData)
          /\ infoLabel.total = gridSize * gridSize
          /\ infoLabel.filled <= infoLabel.total

\* the window was laid out again over a populated store and the marks were restored
RelayoutWitness ==
    /\ last.op = "checkWindowSize"
    /\ DOMAIN imageData # {}
    /\ cells.has = DOMAIN imageData
    /\ infoLabel.filled = Cardinality(DOMAIN imageData)

\* the entries of a snapshot whose coordinate lies on the n x n grid
OnGrid(data, n) == [c \in {k \in DOMAIN data : InGrid(k[1], k[2], n)} |-> data[c]]

\* C19: the cell sequence a job builds has exactly N*N entries, the entry of cell
\* (row, col) at index row*N + col; snapshot entries off the grid are ignored: the
\* sequence, the cell size and the painted cells are those of the snapshot without them.
RowMajorSequence ==
    \A j \in DOMAIN jobs :
        LET job == jobs[j]
            n == job.gridSize
            data == job.imageData
            kept == OnGrid(data, n)
        IN /\ HasBuilt(job) =>
                 /\ Len(job.images) = n * n
                 /\ \A row \in 0..(n - 1), col \in 0..(n - 1) :
                       job.images[row * n + col + 1] =
                           IF <<row, col>> \in DOMAIN data THEN data[<<row, col>>].image
                           ELSE NullImage
                 /\ job.images = BuildImages(kept, n)
           /\ Len(job.processedImages) > 0 =>
                 LET m == MinWidth(job.processedImages, 1, INT_MAX) IN
                 IF DOMAIN kept = {} THEN m = INT_MAX
                 ELSE /\ \A c \in DOMAIN kept : m <= Min(kept[c].image.w, kept[c].image.h)
                      /\ \E c \in DOMAIN kept : m = Min(kept[c].image.w, kept[c].image.h)
           /\ \A sq \in job.painted :
                 <<sq.index \div n, sq.index % n>> \in DOMAIN kept

\* a job whose snapshot holds a small image off the grid sized its cells by the
\* large images on the grid alone, and succeeded
OffGridIgnored ==
    \E j \in DOMAIN jobs :
        LET data == jobs[j].imageData
            n == jobs[j].gridSize
        IN /\ jobs[j].outcome = "success"
           /\ \E c \in DOMAIN data : ~InGrid(c[1], c[2], n) /\ data[c].image = Portrait
           /\ \E c \in DOMAIN data : InGrid(c[1], c[2], n) /\ data[c].image = Large
           /\ MinWidth(jobs[j].processedImages, 1, INT_MAX) = 2000
           /\ Cardinality(jobs[j].painted) = 1

\* the output side for every N in 1..10 and the widths above under the controller's cap
SideArithmetic ==
    \A n \in SpinMin..SpinMax, m \in CapWidths \cup {32767} :
        /\ CapSize(n, m, maxCollageSize)[1] >= 1
        /\ CapSize(n, m, maxCollageSize)[2] \in n..maxCollageSize

\* C20: under the controller's cap of 4000 and N in 1..10, a job with at least
\* one present image does not take the no-images path, and the side it computes
\* is at least N and at most 4000, so its raster is not empty.
RasterNeverEmpty ==
    /\ SideArithmetic
    /\ \A j \in DOMAIN jobs :
          LET job == jobs[j] IN
          (job.maxCollageSize = maxCollageSize /\ ~NoPresentCells(j)) =>
              /\ \A k \in FinishedIndexes(j) : job.sent[k].message # "no images"
              /\ HasSized(job) =>
                    /\ job.minSize >= 1
                    /\ job.collageSize >= job.gridSize
                    /\ job.collageSize <= maxCollageSize

\* a job on a grid of 2 with 2000-pixel squares produced a side of exactly 4000
FullSizeWitness ==
    \E j \in DOMAIN jobs :
        /\ jobs[j].gridSize = 2
        /\ jobs[j].collageSize = maxCollageSize
        /\ jobs[j].minSize = 2000
        /\ jobs[j].outcome = "success"

====
